---- MODULE Spec2Model ----
(***************************************************************************)
(* Model of claude-integration/notify_telegram.py: the ClaudeTelegramNotifier *)
(* class (notify and its five convenience methods), the module-level        *)
(* notifier with notify_claude, and the command-line entry point.           *)
(*                                                                          *)
(* Python values are modelled as follows.                                   *)
(*  - str: a TLA+ string; f-strings are concatenations with \o.             *)
(*  - The emoji of the message templates cannot be written in a TLA+ string; *)
(*    each is written as its code point between braces.                     *)
(*  - A decoded JSON value (and None) is a record [t, s, f]: t is the kind,  *)
(*    s the text of a string, f the members of an object.                   *)
(*  - An optional list argument (actions: List[str] = None) is a record     *)
(*    [given, v]: given = FALSE is None.                                     *)
(*  - The evaluation of a Python block is a record [kind, value, exc]:      *)
(*    kind = "return" carries the value, kind = "raise" the exception.      *)
(***************************************************************************)
EXTENDS Integers, Sequences, FiniteSets, TLC

VARIABLES
    notifier,   \* the module-level ClaudeTelegramNotifier: its three fields
    environ,    \* CLAUDE_WEBHOOK_SECRET as it was when the notifier was built
    clock,      \* wall clock, in seconds after TimeBase; read by datetime.now()
    call,       \* the last operation called and its arguments
    sent,       \* the requests handed to requests.post by the last operation
    reply,      \* what the transport did with the last operation's request
    result,     \* the value the last operation returned
    raised,     \* the exception that escaped the last operation, if any
    stdout,     \* the lines printed by the last operation
    exit_code,  \* the process exit code set by the last operation, -1 if none
    posted      \* total number of POSTs issued since construction

vars == <<notifier, environ, clock, call, sent, reply, result, raised, stdout, exit_code, posted>>

---------------------------------------------------------------------------
(* Bounds of the model *)

\* the clock stops at MaxClock; every operation takes one second
MaxClock == 2

---------------------------------------------------------------------------
(* Program constants *)

WEBHOOK_URL == "https://telegram-monitor.vercel.app/api/claude-notify"
DEFAULT_SECRET == "your-secret-key-here"
TIMEOUT == 10
MIN_ARGV == 3

\* the emoji of the message templates, by code point
ICON_TASK == "{U+2705}"
ICON_ERROR == "{U+1F6A8}"
ICON_DECISION == "{U+2696 U+FE0F}"
ICON_CONTENT == "{U+1F4DD}"
ICON_ALERT == "{U+1F4E1}"
ICON_FAIL == "{U+274C}"

---------------------------------------------------------------------------
(* Python values *)

PyNone == [t |-> "null", s |-> "", f |-> <<>>]
JStr(x) == [t |-> "str", s |-> x, f |-> <<>>]
JObj(m) == [t |-> "obj", s |-> "", f |-> m]
JArr == [t |-> "arr", s |-> "", f |-> <<>>]
EmptyDict == JObj(<<>>)

\* type(v).__name__ as Python prints it in an AttributeError
TypeName(v) ==
    CASE v.t = "null" -> "NoneType"
      [] v.t = "str" -> "str"
      [] v.t = "arr" -> "list"
      [] OTHER -> "dict"

\* str(v) of a value placed in an f-string
PyStr(v) == IF v.t = "null" THEN "None" ELSE v.s

\* no value: nothing was returned
NoResult == [none |-> TRUE]

NoExc == [type |-> "", msg |-> ""]
Return(v) == [kind |-> "return", value |-> v, exc |-> NoExc]
Raise(e) == [kind |-> "raise", value |-> PyNone, exc |-> e]

NoneArg == [given |-> FALSE, v |-> <<>>]
Given(l) == [given |-> TRUE, v |-> l]

\* the truth value Python gives an optional list: None and [] are false
Truthy(a) == a.given /\ Len(a.v) > 0

\* str(n) of a non-negative int, digit by digit
Digit(d) ==
    CASE d = 0 -> "0" [] d = 1 -> "1" [] d = 2 -> "2" [] d = 3 -> "3"
      [] d = 4 -> "4" [] d = 5 -> "5" [] d = 6 -> "6" [] d = 7 -> "7"
      [] d = 8 -> "8" [] OTHER -> "9"

RECURSIVE IntToStr(_)
IntToStr(n) == IF n < 10 THEN Digit(n) ELSE IntToStr(n \div 10) \o Digit(n % 10)

\* datetime.now().isoformat() at `now` seconds after the base instant
TimeBase == "2025-01-01T00:00:"
isoformat(now) == TimeBase \o Digit((now \div 10) % 6) \o Digit(now % 10)

---------------------------------------------------------------------------
(* The transport: what requests.post can do with one request *)

B_FULL == "{\"result\":{\"topicId\":\"t1\",\"messageId\":\"m1\"}}"
B_TOPIC == "{\"result\":{\"topicId\":\"t1\"}}"
B_NO_RESULT == "{}"
B_NULL_RESULT == "{\"result\":null}"
B_ARRAY == "[]"
B_TEXT == "server error"

Bodies == {B_FULL, B_TOPIC, B_NO_RESULT, B_NULL_RESULT, B_ARRAY, B_TEXT}
ErrorBodies == {B_FULL, B_TEXT}
\* the statuses below 400 are paired with every body, 404 and 500 with two
LowStatuses == {101, 200, 304}
ErrorStatuses == {404, 500}
Statuses == LowStatuses \cup ErrorStatuses

Response(status, text) ==
    [kind |-> "response", status_code |-> status, text |-> text, exc |-> NoExc]
TransportError(type, msg) ==
    [kind |-> "raise", status_code |-> 0, text |-> "", exc |-> [type |-> type, msg |-> msg]]

TransportErrors ==
    { TransportError("ConnectionError", "Connection refused"),
      TransportError("ReadTimeout", "Read timed out. (read timeout=10)") }

Outcomes ==
    { Response(s, b) : s \in LowStatuses, b \in Bodies }
        \cup { Response(s, b) : s \in ErrorStatuses, b \in ErrorBodies }
        \cup TransportErrors

NoReply == [kind |-> "none", status_code |-> 0, text |-> "", exc |-> NoExc]

\* requests.Response.ok: raise_for_status() raises for 400 <= status < 600 only
ok(response) == ~(400 <= response.status_code /\ response.status_code < 600)

\* requests.Response.json() on the bodies of the model
json(response) ==
    CASE response.text = B_FULL ->
            Return(JObj([result |-> JObj([topicId |-> JStr("t1"), messageId |-> JStr("m1")])]))
      [] response.text = B_TOPIC ->
            Return(JObj([result |-> JObj([topicId |-> JStr("t1")])]))
      [] response.text = B_NO_RESULT -> Return(EmptyDict)
      [] response.text = B_NULL_RESULT -> Return(JObj([result |-> PyNone]))
      [] response.text = B_ARRAY -> Return(JArr)
      [] OTHER ->
            Raise([type |-> "JSONDecodeError",
                   msg |-> "Expecting value: line 1 column 1 (char 0)"])

\* d.get(key, default): AttributeError when d is not a dict
get(d, key, default) ==
    IF d.t # "obj"
    THEN Raise([type |-> "AttributeError",
                msg |-> "'" \o TypeName(d) \o "' object has no attribute 'get'"])
    ELSE IF key \in DOMAIN d.f THEN Return(d.f[key]) ELSE Return(default)

---------------------------------------------------------------------------
(* class ClaudeTelegramNotifier *)

UnsetEnv == [given |-> FALSE, v |-> ""]
SetEnv(x) == [given |-> TRUE, v |-> x]

\* os.getenv(name, default) on the variable's value
getenv(env, default) == IF env.given THEN env.v ELSE default

\* ClaudeTelegramNotifier.__init__
init(env) ==
    [webhook_url |-> WEBHOOK_URL,
     webhook_secret |-> getenv(env, DEFAULT_SECRET),
     default_instance |-> "general"]

\* the headers dict of notify
Headers(self) ==
    ("Content-Type" :> "application/json") @@ ("X-Claude-Secret" :> self.webhook_secret)

\* a buggy variant: the priority is validated, an unknown one becomes medium
Payload_validated(message, topic, context, requires_decision, actions, priority, project, now) ==
    [type |-> "claude_" \o topic,
     message |-> message,
     context |-> context,
     instance |-> "claude-" \o topic,
     project |-> project,
     requiresDecision |-> requires_decision,
     actions |-> IF Truthy(actions) THEN actions.v ELSE <<>>,
     priority |-> IF priority \in {"low", "medium", "high", "critical"}
                  THEN priority ELSE "medium",
     timestamp |-> isoformat(now),
     source |-> "claude-code"]

\* the payload dict of notify
Payload(message, topic, context, requires_decision, actions, priority, project, now) ==
    [type |-> "claude_" \o topic,
     message |-> message,
     context |-> context,
     instance |-> "claude-" \o topic,
     project |-> project,
     requiresDecision |-> requires_decision,
     actions |-> IF Truthy(actions) THEN actions.v ELSE <<>>,
     priority |-> priority,
     timestamp |-> isoformat(now),
     source |-> "claude-code"]

\* a buggy variant: a request the transport fails is sent a second time
post_retry(url, payload, headers, timeout, net) ==
    LET req == [url |-> url, json |-> payload, headers |-> headers, timeout |-> timeout]
    IN  [sent |-> IF net.kind = "raise" THEN <<req, req>> ELSE <<req>>, reply |-> net]

\* requests.post(url, json=..., headers=..., timeout=...): the one request it is
\* called with, and what the transport answers
post(url, payload, headers, timeout, net) ==
    [sent |-> << [url |-> url, json |-> payload, headers |-> headers, timeout |-> timeout] >>,
     reply |-> net]

\* the if/else of notify on a received response
respond(response) ==
    IF ok(response)
    THEN LET j == json(response) IN
         IF j.kind = "raise" THEN j ELSE
         LET inner == get(j.value, "result", EmptyDict) IN
         IF inner.kind = "raise" THEN inner ELSE
         \* both lookups call .get on the value found under "result"
         LET topic_id == get(inner.value, "topicId", PyNone)
             message_id == get(inner.value, "messageId", PyNone)
         IN  IF topic_id.kind = "raise" THEN topic_id ELSE
             IF message_id.kind = "raise" THEN message_id ELSE
             Return([success |-> TRUE,
                     topic_id |-> topic_id.value,
                     message_id |-> message_id.value])
    ELSE Return([success |-> FALSE,
                 error |-> "HTTP " \o IntToStr(response.status_code) \o ": " \o response.text])

\* a buggy variant: except requests.RequestException, which an AttributeError is not
except_RequestException(o) ==
    IF o.kind = "raise" /\ o.exc.type # "AttributeError"
    THEN Return([success |-> FALSE, error |-> o.exc.msg])
    ELSE o

\* except Exception as e: return {"success": False, "error": str(e)}
except_Exception(o) ==
    IF o.kind = "raise"
    THEN Return([success |-> FALSE, error |-> o.exc.msg])
    ELSE o

\* ClaudeTelegramNotifier.notify, called at time `now` with the transport doing `net`:
\* the requests it hands to requests.post and how the call ends
notify(self, message, topic, context, requires_decision, actions, priority, project, now, net) ==
    LET headers == Headers(self)
        payload == Payload(message, topic, context, requires_decision, actions,
                           priority, project, now)
        p == post(self.webhook_url, payload, headers, TIMEOUT, net)
        body == IF p.reply.kind = "raise" THEN Raise(p.reply.exc) ELSE respond(p.reply)
    IN  [sent |-> p.sent, outcome |-> except_Exception(body)]

DEFAULT_ACTIONS == <<"Approve", "Reject", "More Info">>

notify_task_completion(self, task, project, details, now, net) ==
    notify(self, ICON_TASK \o " Task completed: " \o task, "development", details,
           FALSE, NoneArg, "medium", project, now, net)

\* a buggy variant: the priority is left at notify's default
notify_error_medium(self, error, context, project, now, net) ==
    notify(self, ICON_ERROR \o " Error detected: " \o error, "monitoring", context,
           FALSE, NoneArg, "medium", project, now, net)

notify_error(self, error, context, project, now, net) ==
    notify(self, ICON_ERROR \o " Error detected: " \o error, "monitoring", context,
           FALSE, NoneArg, "high", project, now, net)

\* a buggy variant: the actions are passed on as they are, without the default
request_decision_no_default(self, decision_needed, context, actions, project, now, net) ==
    notify(self, ICON_DECISION \o " Decision needed: " \o decision_needed, "decisions",
           context, TRUE, actions, "high", project, now, net)

request_decision(self, decision_needed, context, actions, project, now, net) ==
    notify(self, ICON_DECISION \o " Decision needed: " \o decision_needed, "decisions",
           context, TRUE,
           Given(IF Truthy(actions) THEN actions.v ELSE DEFAULT_ACTIONS),
           "high", project, now, net)

notify_content_ready(self, content_type, description, project, now, net) ==
    notify(self, ICON_CONTENT \o " Content ready: " \o content_type, "content",
           description, FALSE, NoneArg, "medium", project, now, net)

PRIORITY_KEYS == {"low", "medium", "high", "critical"}

\* priority_map.get(severity, "medium"): the map is the identity on its keys
priority_map_get(severity, default) ==
    IF severity \in PRIORITY_KEYS THEN severity ELSE default

\* a buggy variant: the severity is forwarded without the map
notify_system_alert_raw(self, alert, severity, context, now, net) ==
    notify(self, ICON_ALERT \o " System alert: " \o alert, "monitoring", context,
           FALSE, NoneArg, severity, "", now, net)

notify_system_alert(self, alert, severity, context, now, net) ==
    notify(self, ICON_ALERT \o " System alert: " \o alert, "monitoring", context,
           FALSE, NoneArg, priority_map_get(severity, "medium"), "", now, net)

\* notify_claude(message, topic, **kwargs) as the CLI calls it: context=context
notify_claude(self, message, topic, context, now, net) ==
    notify(self, message, topic, context, FALSE, NoneArg, "medium", "", now, net)

---------------------------------------------------------------------------
(* The command-line entry point *)

USAGE ==
    << "Usage: python notify_telegram.py [topic] [message] [context?]",
       "", "Available topics:",
       "  - general", "  - development", "  - content", "  - monitoring",
       "  - ai-research", "  - decisions", "  - automation",
       "", "Examples:",
       "  python notify_telegram.py development \"Code review completed\"",
       "  python notify_telegram.py decisions \"Deploy to production?\" \"All tests passed\"" >>

\* the branch taken when too few arguments are given: usage, then sys.exit(1)
usage == [sent |-> <<>>, outcome |-> Return(NoResult), stdout |-> USAGE, exit_code |-> 1]

\* the rest of the script: one notification, then the report of its result
run(self, argv, now, net) ==
    LET topic == argv[2]
        message == argv[3]
        context == IF Len(argv) > 3 THEN argv[4] ELSE ""
        n == notify_claude(self, message, topic, context, now, net)
        r == n.outcome.value
    IN  IF n.outcome.kind = "raise"
        THEN [sent |-> n.sent, outcome |-> n.outcome, stdout |-> <<>>, exit_code |-> 1]
        ELSE IF r.success
        THEN [sent |-> n.sent, outcome |-> n.outcome,
              stdout |-> << ICON_TASK \o " Notification sent successfully!",
                            "Topic ID: " \o PyStr(r.topic_id),
                            "Message ID: " \o PyStr(r.message_id) >>,
              exit_code |-> 0]
        ELSE [sent |-> n.sent, outcome |-> n.outcome,
              stdout |-> << ICON_FAIL \o " Failed to send notification: " \o r.error >>,
              exit_code |-> 1]

\* a buggy variant: the check is off by one and a missing message is sent empty
main_off_by_one(self, argv, now, net) ==
    IF Len(argv) < MIN_ARGV - 1 THEN usage ELSE run(self, argv \o <<"">>, now, net)

\* the script body under __main__, run with sys.argv = argv
main(self, argv, now, net) ==
    IF Len(argv) < MIN_ARGV THEN usage ELSE run(self, argv, now, net)

---------------------------------------------------------------------------
(* The inputs of the model *)

Messages == {"hello"}
Topics == {"general", "ops"}
Contexts == {"ctx"}
Projects == {"proj"}
Priorities == {"urgent"}
ActionArgs == {NoneArg, Given(<<>>), Given(<<"Yes", "No">>)}
Severities == {"low", "medium", "high", "critical", "urgent", ""}
Subjects == {"deploy"}
Environs == {UnsetEnv, SetEnv("s3cr3t")}
Argvs ==
    { <<"notify_telegram.py">>,
      <<"notify_telegram.py", "ops">>,
      <<"notify_telegram.py", "ops", "hello">>,
      <<"notify_telegram.py", "ops", "hello", "ctx">> }

---------------------------------------------------------------------------
(* The state machine *)

NoCall == [op |-> "none", args |-> <<>>]

\* the module is imported: notifier = ClaudeTelegramNotifier()
Init ==
    /\ environ \in Environs
    /\ notifier = init(environ)
    /\ clock = 0
    /\ call = NoCall
    /\ sent = <<>>
    /\ reply = NoReply
    /\ result = NoResult
    /\ raised = NoExc
    /\ stdout = <<>>
    /\ exit_code = -1
    /\ posted = 0

\* a buggy variant: the method remembers the operation in a field of the notifier
Method_stateful(c, n, net) ==
    /\ clock < MaxClock
    /\ clock' = clock + 1
    /\ call' = c
    /\ sent' = n.sent
    /\ reply' = IF n.sent = <<>> THEN NoReply ELSE net
    /\ result' = IF n.outcome.kind = "return" THEN n.outcome.value ELSE NoResult
    /\ raised' = n.outcome.exc
    /\ posted' = posted + Len(n.sent)
    /\ stdout' = <<>>
    /\ exit_code' = -1
    /\ notifier' = [notifier EXCEPT !.default_instance = c.op]
    /\ UNCHANGED environ

\* a call of a method of the notifier, c, has ended as n says
Method(c, n, net) ==
    /\ clock < MaxClock
    /\ clock' = clock + 1
    /\ call' = c
    /\ sent' = n.sent
    /\ reply' = IF n.sent = <<>> THEN NoReply ELSE net
    /\ result' = IF n.outcome.kind = "return" THEN n.outcome.value ELSE NoResult
    /\ raised' = n.outcome.exc
    /\ posted' = posted + Len(n.sent)
    /\ stdout' = <<>>
    /\ exit_code' = -1
    /\ UNCHANGED <<notifier, environ>>

Notify(message, topic, context, requires_decision, actions, priority, project, net) ==
    Method([op |-> "notify",
            args |-> [message |-> message, topic |-> topic, context |-> context,
                      requires_decision |-> requires_decision, actions |-> actions,
                      priority |-> priority, project |-> project]],
           notify(notifier, message, topic, context, requires_decision, actions,
                  priority, project, clock, net),
           net)

NotifyTaskCompletion(task, project, details, net) ==
    Method([op |-> "notify_task_completion",
            args |-> [task |-> task, project |-> project, details |-> details]],
           notify_task_completion(notifier, task, project, details, clock, net),
           net)

NotifyError(error, context, project, net) ==
    Method([op |-> "notify_error",
            args |-> [error |-> error, context |-> context, project |-> project]],
           notify_error(notifier, error, context, project, clock, net),
           net)

RequestDecision(decision_needed, context, actions, project, net) ==
    Method([op |-> "request_decision",
            args |-> [decision_needed |-> decision_needed, context |-> context,
                      actions |-> actions, project |-> project]],
           request_decision(notifier, decision_needed, context, actions, project, clock, net),
           net)

NotifyContentReady(content_type, description, project, net) ==
    Method([op |-> "notify_content_ready",
            args |-> [content_type |-> content_type, description |-> description,
                      project |-> project]],
           notify_content_ready(notifier, content_type, description, project, clock, net),
           net)

NotifySystemAlert(alert, severity, context, net) ==
    Method([op |-> "notify_system_alert",
            args |-> [alert |-> alert, severity |-> severity, context |-> context]],
           notify_system_alert(notifier, alert, severity, context, clock, net),
           net)

\* python notify_telegram.py ...: one run of the script
Main(argv, net) ==
    LET m == main(notifier, argv, clock, net) IN
    /\ clock < MaxClock
    /\ clock' = clock + 1
    /\ call' = [op |-> "main", args |-> [argv |-> argv]]
    /\ sent' = m.sent
    /\ reply' = IF m.sent = <<>> THEN NoReply ELSE net
    /\ result' = IF m.outcome.kind = "return" THEN m.outcome.value ELSE NoResult
    /\ raised' = m.outcome.exc
    /\ posted' = posted + Len(m.sent)
    /\ stdout' = m.stdout
    /\ exit_code' = m.exit_code
    /\ UNCHANGED <<notifier, environ>>

Next ==
    \/ \E m \in Messages, t \in Topics, c \in Contexts, d \in BOOLEAN, a \in ActionArgs,
          p \in Priorities, j \in Projects, net \in Outcomes :
            Notify(m, t, c, d, a, p, j, net)
    \/ \E x \in Subjects, j \in Projects, c \in Contexts, net \in Outcomes :
            NotifyTaskCompletion(x, j, c, net)
    \/ \E x \in Subjects, c \in Contexts, j \in Projects, net \in Outcomes :
            NotifyError(x, c, j, net)
    \/ \E x \in Subjects, c \in Contexts, a \in ActionArgs, j \in Projects, net \in Outcomes :
            RequestDecision(x, c, a, j, net)
    \/ \E x \in Subjects, c \in Contexts, j \in Projects, net \in Outcomes :
            NotifyContentReady(x, c, j, net)
    \/ \E x \in Subjects, s \in Severities, c \in Contexts, net \in Outcomes :
            NotifySystemAlert(x, s, c, net)
    \/ \E argv \in Argvs, net \in Outcomes :
            Main(argv, net)

Spec == Init /\ [][Next]_vars

---------------------------------------------------------------------------
(* Vocabulary of the properties *)

MethodOps ==
    {"notify", "notify_task_completion", "notify_error", "request_decision",
     "notify_content_ready", "notify_system_alert"}

\* the last operation called notify: a method, or the script with enough arguments
Sends == call.op \in MethodOps \/ (call.op = "main" /\ Len(call.args.argv) >= MIN_ARGV)

IsSuccess(r) == DOMAIN r = {"success", "topic_id", "message_id"} /\ r.success
IsFailure(r) == DOMAIN r = {"success", "error"} /\ ~r.success
Failure(msg) == [success |-> FALSE, error |-> msg]

Is2xx(status) == 200 <= status /\ status < 300

\* the moment the last operation read the clock
CalledAt == clock - 1

\* the member k of the body's nested result object, None when there is none
ResultField(body, k) ==
    IF "result" \in DOMAIN body.f /\ body.f["result"].t = "obj"
       /\ k \in DOMAIN body.f["result"].f
    THEN body.f["result"].f[k]
    ELSE PyNone

\* the last operation ended as the evaluation n does
EndsAs(n) ==
    /\ sent = n.sent
    /\ raised = n.outcome.exc
    /\ n.outcome.kind = "return" => result = n.outcome.value

---------------------------------------------------------------------------
(* C1: whatever the transport does, no exception escapes notify; it returns *)
(* Success (success true, no error) or Failure (success false, an error    *)
(* string), and when the transport raises, the error is its message.        *)
C1_NoExceptionEscapes ==
    Sends =>
        /\ raised = NoExc
        /\ IsSuccess(result) \/ IsFailure(result)
        /\ reply.kind = "raise" => result = Failure(reply.exc.msg)

C1_Witness ==
    /\ call.op = "notify"
    /\ reply.kind = "raise"
    /\ result = Failure("Connection refused")

(* C2: every call of notify or of a convenience operation hands exactly one *)
(* request to requests.post, for the fixed endpoint, on success and on      *)
(* failure alike.                                                            *)
C2_ExactlyOnePost ==
    /\ Sends => Len(sent) = 1 /\ sent[1].url = WEBHOOK_URL
    /\ posted <= clock

C2_Witness ==
    /\ call.op = "notify_error"
    /\ reply.kind = "raise"
    /\ IsFailure(result)
    /\ Len(sent) = 1
    /\ posted = 2

(* C3: for every response whose status is not 2xx the result is Failure with *)
(* the error "HTTP <status>: <body text>", and Success is returned only for  *)
(* a 2xx status.                                                             *)
C3_Non2xxIsFailure ==
    (Sends /\ reply.kind = "response") =>
        /\ ~Is2xx(reply.status_code) =>
              result = Failure("HTTP " \o IntToStr(reply.status_code) \o ": " \o reply.text)
        /\ IsSuccess(result) => Is2xx(reply.status_code)

(* C4: for every 2xx response whose body is a JSON object the result is     *)
(* Success, with topicId and messageId those of the nested result object    *)
(* where it has them and None otherwise.                                     *)
C4_SuccessCarriesIds ==
    (Sends /\ reply.kind = "response" /\ Is2xx(reply.status_code)
        /\ json(reply).kind = "return" /\ json(reply).value.t = "obj") =>
        result = [success |-> TRUE,
                  topic_id |-> ResultField(json(reply).value, "topicId"),
                  message_id |-> ResultField(json(reply).value, "messageId")]

(* C5: the body posted by notify carries the arguments unchanged: message,  *)
(* context, project, requiresDecision and priority as given (any priority   *)
(* string), actions as given or empty when none is given, type "claude_" +  *)
(* topic, instance "claude-" + topic, source "claude-code".                  *)
C5_PayloadCarriesArguments ==
    call.op = "notify" =>
        /\ Len(sent) >= 1
        /\ LET j == sent[1].json
               a == call.args
           IN  /\ DOMAIN j = {"type", "message", "context", "instance", "project",
                              "requiresDecision", "actions", "priority", "timestamp",
                              "source"}
               /\ j.message = a.message
               /\ j.context = a.context
               /\ j.project = a.project
               /\ j.requiresDecision = a.requires_decision
               /\ j.priority = a.priority
               /\ j.actions = (IF a.actions.given THEN a.actions.v ELSE <<>>)
               /\ j.type = "claude_" \o a.topic
               /\ j.instance = "claude-" \o a.topic
               /\ j.source = "claude-code"
               /\ j.timestamp = isoformat(CalledAt)

C5_Witness ==
    /\ call.op = "notify"
    /\ call.args.priority = "urgent"
    /\ call.args.actions = Given(<<"Yes", "No">>)
    /\ Len(sent) = 1
    /\ sent[1].json.priority = "urgent"
    /\ sent[1].json.actions = <<"Yes", "No">>

(* C6: notify_system_alert posts topic monitoring, the message "<alert      *)
(* emoji> System alert: {alert}", and as priority the severity when it is   *)
(* low, medium, high or critical and medium for any other string.           *)
C6_SystemAlertPriority ==
    call.op = "notify_system_alert" =>
        /\ Len(sent) >= 1
        /\ LET j == sent[1].json
               a == call.args
           IN  /\ j.type = "claude_monitoring"
               /\ j.instance = "claude-monitoring"
               /\ j.message = ICON_ALERT \o " System alert: " \o a.alert
               /\ j.priority = (IF a.severity \in {"low", "medium", "high", "critical"}
                                THEN a.severity ELSE "medium")
               /\ j.priority \in {"low", "medium", "high", "critical"}

C6_Witness ==
    /\ call.op = "notify_system_alert"
    /\ call.args.severity = "urgent"
    /\ Len(sent) = 1
    /\ sent[1].json.priority = "medium"

(* C7, as stated: request_decision posts requiresDecision true, topic       *)
(* decisions and priority high; the actions are Approve, Reject, More Info  *)
(* when none are supplied and exactly the supplied sequence otherwise.       *)
C7_SuppliedActionsKept ==
    call.op = "request_decision" =>
        /\ Len(sent) >= 1
        /\ LET j == sent[1].json
               a == call.args
           IN  /\ j.requiresDecision = TRUE
               /\ j.type = "claude_decisions"
               /\ j.priority = "high"
               /\ j.actions = (IF a.actions.given THEN a.actions.v
                               ELSE <<"Approve", "Reject", "More Info">>)

(* C7, amended: request_decision posts requiresDecision true, topic         *)
(* decisions and priority high; the actions are Approve, Reject, More Info  *)
(* when none are supplied or the supplied sequence is empty, and exactly    *)
(* the supplied sequence when it is not empty.                               *)
C7_NonEmptyActionsKept ==
    call.op = "request_decision" =>
        /\ Len(sent) >= 1
        /\ LET j == sent[1].json
               a == call.args
           IN  /\ j.requiresDecision = TRUE
               /\ j.type = "claude_decisions"
               /\ j.priority = "high"
               /\ j.actions = (IF a.actions.given /\ a.actions.v # <<>> THEN a.actions.v
                               ELSE <<"Approve", "Reject", "More Info">>)

C7_Witness ==
    /\ call.op = "request_decision"
    /\ call.args.actions = Given(<<>>)
    /\ Len(sent) = 1
    /\ sent[1].json.actions = <<"Approve", "Reject", "More Info">>

(* C8: the script run with fewer than two positional arguments prints the   *)
(* usage listing and exits with code 1 without any request; a request is    *)
(* made only when topic and message are both given.                          *)
C8_UsageWithoutRequest ==
    call.op = "main" =>
        /\ Len(call.args.argv) - 1 < 2 =>
              /\ sent = <<>>
              /\ exit_code = 1
              /\ stdout = USAGE
        /\ sent # <<>> => Len(call.args.argv) - 1 >= 2

C8_Witness ==
    /\ call.op = "main"
    /\ Len(call.args.argv) = 2
    /\ sent = <<>>
    /\ exit_code = 1
    /\ stdout # <<>>

(* C9: notify_task_completion, notify_error and notify_content_ready end    *)
(* exactly as notify does, for the same transport outcome, when called with *)
(* topic development, monitoring, content, the templated message, priority  *)
(* medium, high, medium, and the caller's context and project.               *)
C9_ConvenienceIsPrefill ==
    LET a == call.args IN
    /\ call.op = "notify_task_completion" =>
          EndsAs(notify(notifier, ICON_TASK \o " Task completed: " \o a.task,
                        "development", a.details, FALSE, NoneArg, "medium", a.project,
                        CalledAt, reply))
    /\ call.op = "notify_error" =>
          EndsAs(notify(notifier, ICON_ERROR \o " Error detected: " \o a.error,
                        "monitoring", a.context, FALSE, NoneArg, "high", a.project,
                        CalledAt, reply))
    /\ call.op = "notify_content_ready" =>
          EndsAs(notify(notifier, ICON_CONTENT \o " Content ready: " \o a.content_type,
                        "content", a.description, FALSE, NoneArg, "medium", a.project,
                        CalledAt, reply))

C9_Witness ==
    /\ call.op = "notify_error"
    /\ IsSuccess(result)
    /\ Len(sent) = 1
    /\ sent[1].json.priority = "high"
    /\ sent[1].json.type = "claude_monitoring"

\* the last operation, evaluated on the notifier self
Replayed(self) ==
    LET a == call.args IN
    CASE call.op = "notify" ->
            notify(self, a.message, a.topic, a.context, a.requires_decision, a.actions,
                   a.priority, a.project, CalledAt, reply)
      [] call.op = "notify_task_completion" ->
            notify_task_completion(self, a.task, a.project, a.details, CalledAt, reply)
      [] call.op = "notify_error" ->
            notify_error(self, a.error, a.context, a.project, CalledAt, reply)
      [] call.op = "request_decision" ->
            request_decision(self, a.decision_needed, a.context, a.actions, a.project,
                             CalledAt, reply)
      [] call.op = "notify_content_ready" ->
            notify_content_ready(self, a.content_type, a.description, a.project,
                                 CalledAt, reply)
      [] call.op = "notify_system_alert" ->
            notify_system_alert(self, a.alert, a.severity, a.context, CalledAt, reply)
      [] OTHER -> main(self, a.argv, CalledAt, reply)

(* C10: after any sequence of calls the notifier's URL and secret are those *)
(* fixed at construction, every request carries them (the URL, and the      *)
(* secret in X-Claude-Secret), and a call ends as the same call does on a   *)
(* newly constructed notifier: nothing of earlier calls enters it.          *)
C10_NoStateCarriedOver ==
    /\ notifier = init(environ)
    /\ \A i \in 1..Len(sent) :
          /\ sent[i].url = WEBHOOK_URL
          /\ sent[i].headers["X-Claude-Secret"] = getenv(environ, DEFAULT_SECRET)
    /\ call.op # "none" => EndsAs(Replayed(init(environ)))
    /\ call.op = "main" =>
          /\ stdout = Replayed(init(environ)).stdout
          /\ exit_code = Replayed(init(environ)).exit_code

C10_Witness ==
    /\ clock = 2
    /\ posted = 2
    /\ environ = SetEnv("s3cr3t")
    /\ call.op = "notify"
    /\ sent[1].headers["X-Claude-Secret"] = "s3cr3t"

====
